---- MODULE Spec2Model ----
(***************************************************************************)
(* 3D Gomoku: the rules engine (move resolution, win detection), the       *)
(* heuristic AI and the game session hook (useGame), as state machines.    *)
(***************************************************************************)
EXTENDS Integers, Sequences, FiniteSets, TLC

(***************************************************************************)
(* Values                                                                  *)
(***************************************************************************)

\* type Player = 'black' | 'white'
Players == {"black", "white"}

\* the JavaScript null of a CellValue or of GameState.winner
NoPlayer == "null"

\* the JavaScript null of GameState.winningLine (a line is never empty)
NoLine == << >>

\* interface Coordinate { x, y, z }
Coord(x, y, z) == [x |-> x, y |-> y, z |-> z]

Other(p) == IF p = "black" THEN "white" ELSE "black"

(***************************************************************************)
(* Board model                                                             *)
(***************************************************************************)

\* board[z][y][x], every cell null
createEmptyBoard(size) ==
    [z \in 0..(size - 1) |-> [y \in 0..(size - 1) |-> [x \in 0..(size - 1) |-> NoPlayer]]]

\* board.length
BoardSize(board) == Cardinality(DOMAIN board)

Cells(size) == {Coord(x, y, z) : x \in 0..(size - 1), y \in 0..(size - 1), z \in 0..(size - 1)}

\* !newBoard.some(layer => layer.some(row => row.some(cell => cell === null)))
isBoardFull(board) ==
    \A z \in DOMAIN board : \A y \in DOMAIN board[z] : \A x \in DOMAIN board[z][y] :
        board[z][y][x] # NoPlayer

\* The JavaScript evaluation of board[z][y][x]: indexing the undefined value
\* board[z] or board[z][y] raises a TypeError, an x outside the row reads
\* undefined.
ReadCell(board, x, y, z) ==
    IF z \notin DOMAIN board THEN "TypeError"
    ELSE IF y \notin DOMAIN board[z] THEN "TypeError"
    ELSE IF x \notin DOMAIN board[z][y] THEN "undefined"
    ELSE board[z][y][x]

(***************************************************************************)
(* Move resolution                                                         *)
(***************************************************************************)

\* Results of determinePosition: a coordinate, null, or an exception.
PosAt(c) == [kind |-> "coord", c |-> c]
PosNull == [kind |-> "null"]
PosThrow == [kind |-> "throw"]

RECURSIVE GravityScan(_, _, _, _)
GravityScan(board, x, y, z) ==
    IF z >= BoardSize(board) THEN PosNull
    ELSE LET cell == ReadCell(board, x, y, z) IN
         IF cell = "TypeError" THEN PosThrow
         ELSE IF cell = NoPlayer THEN PosAt(Coord(x, y, z))
         ELSE GravityScan(board, x, y, z + 1)

\* A scan that starts at the clicked layer instead of at the bottom.
GravityFromInputZ(board, input) == GravityScan(board, input.x, input.y, input.z)

\* GravityMoveStrategy.determinePosition
GravityDeterminePosition(board, input) == GravityScan(board, input.x, input.y, 0)

\* FreePlacementStrategy.determinePosition
FreeDeterminePosition(board, input) ==
    LET cell == ReadCell(board, input.x, input.y, input.z) IN
    IF cell = "TypeError" THEN PosThrow
    ELSE IF cell = NoPlayer THEN PosAt(input)
    ELSE PosNull

\* IMoveStrategy.determinePosition of the injected strategy
determinePosition(strategy, board, input) ==
    IF strategy = "gravity" THEN GravityDeterminePosition(board, input)
    ELSE FreeDeterminePosition(board, input)

\* getNextOpenZ: the z of the first empty cell of column (x, y), or -1
RECURSIVE NextOpenZFrom(_, _, _, _)
NextOpenZFrom(board, x, y, z) ==
    IF z >= BoardSize(board) THEN -1
    ELSE IF board[z][y][x] = NoPlayer THEN z
    ELSE NextOpenZFrom(board, x, y, z + 1)

getNextOpenZ(board, x, y) == NextOpenZFrom(board, x, y, 0)

(***************************************************************************)
(* Win detection                                                           *)
(***************************************************************************)

\* the 13 line directions (dx, dy, dz), in the order the code scans them
directions ==
    << <<1, 0, 0>>, <<0, 1, 0>>, <<0, 0, 1>>,
       <<1, 1, 0>>, <<1, -1, 0>>, <<1, 0, 1>>, <<1, 0, -1>>, <<0, 1, 1>>, <<0, 1, -1>>,
       <<1, 1, 1>>, <<1, 1, -1>>, <<1, -1, 1>>, <<1, -1, -1>> >>

OutOfBoard(size, nx, ny, nz) ==
    nx < 0 \/ nx >= size \/ ny < 0 \/ ny >= size \/ nz < 0 \/ nz >= size

\* One while loop of checkWin: the cells start + i*d, start + (i+1)*d, ...
\* up to the first one that is off the board or not the player's.
RECURSIVE WalkLine(_, _, _, _, _, _)
WalkLine(board, player, size, start, d, i) ==
    LET nx == start.x + d[1] * i
        ny == start.y + d[2] * i
        nz == start.z + d[3] * i
    IN  IF OutOfBoard(size, nx, ny, nz) THEN << >>
        ELSE IF board[nz][ny][nx] # player THEN << >>
        ELSE <<Coord(nx, ny, nz)>> \o WalkLine(board, player, size, start, d, i + 1)

Negated(d) == <<0 - d[1], 0 - d[2], 0 - d[3]>>

\* The forward scan alone.
ForwardLine(board, player, size, start, d) ==
    <<start>> \o WalkLine(board, player, size, start, d, 1)

\* line: the played cell, then the forward cells, then the backward cells
LineThrough(board, player, size, start, d) ==
    <<start>> \o WalkLine(board, player, size, start, d, 1)
              \o WalkLine(board, player, size, start, Negated(d), 1)

NoWin == [winner |-> NoPlayer, winningLine |-> NoLine]

\* The directions scanned from the last to the first.
RECURSIVE CheckDirectionsFromLast(_, _, _, _, _, _)
CheckDirectionsFromLast(board, player, size, lastMove, winLength, k) ==
    IF k > Len(directions) THEN NoWin
    ELSE LET line == LineThrough(board, player, size, lastMove,
                                 directions[Len(directions) + 1 - k]) IN
         IF Len(line) >= winLength
         THEN [winner |-> player, winningLine |-> line]
         ELSE CheckDirectionsFromLast(board, player, size, lastMove, winLength, k + 1)

RECURSIVE CheckDirections(_, _, _, _, _, _)
CheckDirections(board, player, size, lastMove, winLength, k) ==
    IF k > Len(directions) THEN NoWin
    ELSE LET line == LineThrough(board, player, size, lastMove, directions[k]) IN
         IF Len(line) >= winLength
         THEN [winner |-> player, winningLine |-> line]
         ELSE CheckDirections(board, player, size, lastMove, winLength, k + 1)

\* StandardWinStrategy.checkWin
checkWin(board, lastMove, winLength) ==
    LET player == board[lastMove.z][lastMove.y][lastMove.x] IN
    IF player = NoPlayer THEN NoWin
    ELSE CheckDirections(board, player, BoardSize(board), lastMove, winLength, 1)

(***************************************************************************)
(* Heuristic AI                                                            *)
(***************************************************************************)

\* One while loop of countLine: how many consecutive cells from step i on
\* hold the player's colour.
RECURSIVE CountSteps(_, _, _, _, _, _)
CountSteps(board, player, size, start, d, i) ==
    LET nx == start.x + d[1] * i
        ny == start.y + d[2] * i
        nz == start.z + d[3] * i
    IN  IF OutOfBoard(size, nx, ny, nz) THEN 0
        ELSE IF board[nz][ny][nx] # player THEN 0
        ELSE 1 + CountSteps(board, player, size, start, d, i + 1)

\* HeuristicAIStrategy.countLine
countLine(board, start, d, player, size) ==
    1 + CountSteps(board, player, size, start, d, 1)
      + CountSteps(board, player, size, start, Negated(d), 1)

RECURSIVE MaxLineFrom(_, _, _, _, _)
MaxLineFrom(board, move, player, k, maxLength) ==
    IF k > Len(directions) THEN maxLength
    ELSE LET len == countLine(board, move, directions[k], player, BoardSize(board)) IN
         MaxLineFrom(board, move, player, k + 1, IF len > maxLength THEN len ELSE maxLength)

\* HeuristicAIStrategy.evaluateLineStrength: the longest line through move
\* once player's stone is placed there
evaluateLineStrength(board, move, player, winLength) ==
    MaxLineFrom([board EXCEPT ![move.z][move.y][move.x] = player], move, player, 1, 0)

RECURSIVE PotentialFrom(_, _, _, _)
PotentialFrom(board, move, player, k) ==
    IF k > Len(directions) THEN 0
    ELSE LET len == countLine(board, move, directions[k], player, BoardSize(board)) IN
         (IF len > 1 THEN len * len ELSE 0) + PotentialFrom(board, move, player, k + 1)

\* HeuristicAIStrategy.evaluatePotential
evaluatePotential(board, move, player, winLength) ==
    PotentialFrom([board EXCEPT ![move.z][move.y][move.x] = player], move, player, 1)

\* validMoves: the landing cell of every column that is not full, x in the
\* outer loop and y in the inner loop
RECURSIVE ValidMovesFrom(_, _)
ValidMovesFrom(board, k) ==
    LET size == BoardSize(board)
        x == k \div size
        y == k % size
    IN  IF k >= size * size THEN << >>
        ELSE LET z == getNextOpenZ(board, x, y) IN
             (IF z # -1 THEN <<Coord(x, y, z)>> ELSE << >>) \o ValidMovesFrom(board, k + 1)

validMoves(board) == ValidMovesFrom(board, 0)

\* for (const move of validMoves) if (evaluateLineStrength(...) >= winLength) return move
RECURSIVE FirstStrong(_, _, _, _, _)
FirstStrong(board, moves, player, winLength, k) ==
    IF k > Len(moves) THEN << >>
    ELSE IF evaluateLineStrength(board, moves[k], player, winLength) >= winLength
         THEN <<moves[k]>>
         ELSE FirstStrong(board, moves, player, winLength, k + 1)

\* board[move.z][move.y][move.x] = player: the stone placed for a simulation
SimulatedStone(board, move, player) ==
    [board EXCEPT ![move.z][move.y][move.x] = player]

\* A simulation that leaves its stone on the board.
RevertedStoneSkipped(board, move) == board

\* board[move.z][move.y][move.x] = null: the simulated stone taken back
RevertedStone(board, move) ==
    [board EXCEPT ![move.z][move.y][move.x] = NoPlayer]

\* The board as the loop over evaluateLineStrength leaves it, each call
\* working on the array the call before it left, and the move it returned
\* on, if any.
RECURSIVE StrengthPass(_, _, _, _, _)
StrengthPass(board, moves, player, winLength, k) ==
    IF k > Len(moves) THEN [board |-> board, found |-> << >>]
    ELSE LET placed == SimulatedStone(board, moves[k], player)
             maxLength == MaxLineFrom(placed, moves[k], player, 1, 0)
             after == RevertedStone(placed, moves[k])
         IN  IF maxLength >= winLength THEN [board |-> after, found |-> <<moves[k]>>]
             ELSE StrengthPass(after, moves, player, winLength, k + 1)

\* The board as the scoring loop leaves it: evaluatePotential for the
\* player, then for the opponent, on every move.
RECURSIVE ScorePass(_, _, _, _)
ScorePass(board, moves, player, k) ==
    IF k > Len(moves) THEN board
    ELSE LET mine == RevertedStone(SimulatedStone(board, moves[k], player), moves[k])
             theirs == RevertedStone(SimulatedStone(mine, moves[k], Other(player)), moves[k])
         IN  ScorePass(theirs, moves, player, k + 1)

\* The board array as calculateMove leaves it when it returns.
BoardAfterCalculateMove(board, currentPlayer, winLength) ==
    LET moves == validMoves(board)
        win == StrengthPass(board, moves, currentPlayer, winLength, 1)
        block == StrengthPass(win.board, moves, Other(currentPlayer), winLength, 1)
    IN  IF Len(moves) = 0 THEN board
        ELSE IF win.found # << >> THEN win.board
        ELSE IF block.found # << >> THEN block.board
        ELSE ScorePass(block.board, moves, currentPlayer, 1)

\* sqrt(a) - sqrt(b) > k, for naturals a, b and an integer k
SqrtDiffGreater(a, b, k) ==
    LET l == a - b - k * k IN
    IF k >= 0 THEN l > 0 /\ l * l > 4 * k * k * b
    ELSE \/ b < k * k
         \/ l > 0
         \/ l * l < 4 * k * k * b

\* 4 * dist^2: the squared distance to the centre (size - 1) / 2, in half units
Dist2(size, move) ==
    (2 * move.x - (size - 1)) * (2 * move.x - (size - 1))
    + (2 * move.y - (size - 1)) * (2 * move.y - (size - 1))
    + (2 * move.z - (size - 1)) * (2 * move.z - (size - 1))

\* myPotential * 10 + oppPotential * 8
PotentialScore(board, move, player, winLength) ==
    evaluatePotential(board, move, player, winLength) * 10
    + evaluatePotential(board, move, Other(player), winLength) * 8

\* The scores of the moves without the centre term and the jitter.
RECURSIVE PotentialScores(_, _, _, _, _)
PotentialScores(board, moves, player, winLength, k) ==
    IF k > Len(moves) THEN << >>
    ELSE <<PotentialScore(board, moves[k], player, winLength)>>
         \o PotentialScores(board, moves, player, winLength, k + 1)

\* score(m2) - score(m1) < 1 without the jitter, for moves with potential
\* scores p1 and p2: with a jitter in [0, 1) on every move, m1 can end with
\* the strictly highest score exactly when no other move leads it by 1 or
\* more.  The lead is (p2 - p1) - (dist2 - dist1), the distances being
\* sqrt(Dist2) / 2.
CanOutscore(size, m1, p1, m2, p2) ==
    SqrtDiffGreater(Dist2(size, m2), Dist2(size, m1), 2 * (p2 - p1 - 1))

\* The moves the scoring loop can return, over all values of Math.random().
HeuristicChoices(board, moves, player, winLength) ==
    LET size == BoardSize(board)
        scores == PotentialScores(board, moves, player, winLength, 1)
    IN  {moves[i] : i \in {j \in 1..Len(moves) :
            \A k \in 1..Len(moves) :
                CanOutscore(size, moves[j], scores[j], moves[k], scores[k])}}

ColumnOf(move) == [x |-> move.x, y |-> move.y]

\* A calculateMove without the instant-win pass.
calculateMoveBlockFirst(board, currentPlayer, winLength) ==
    LET moves == validMoves(board)
        block == FirstStrong(board, moves, Other(currentPlayer), winLength, 1)
        win == FirstStrong(board, moves, currentPlayer, winLength, 1)
    IN  IF Len(moves) = 0 THEN {[x |-> 0, y |-> 0]}
        ELSE IF block # << >> THEN {ColumnOf(block[1])}
        ELSE IF win # << >> THEN {ColumnOf(win[1])}
        ELSE {ColumnOf(m) : m \in HeuristicChoices(board, moves, currentPlayer, winLength)}

\* A calculateMove without the instant-block pass.
calculateMoveNoBlock(board, currentPlayer, winLength) ==
    LET moves == validMoves(board)
        win == FirstStrong(board, moves, currentPlayer, winLength, 1)
    IN  IF Len(moves) = 0 THEN {[x |-> 0, y |-> 0]}
        ELSE IF win # << >> THEN {ColumnOf(win[1])}
        ELSE {ColumnOf(m) : m \in HeuristicChoices(board, moves, currentPlayer, winLength)}

\* HeuristicAIStrategy.calculateMove: the set of columns it can return
calculateMove(board, currentPlayer, winLength) ==
    LET moves == validMoves(board)
        win == FirstStrong(board, moves, currentPlayer, winLength, 1)
        block == FirstStrong(board, moves, Other(currentPlayer), winLength, 1)
    IN  IF Len(moves) = 0 THEN {[x |-> 0, y |-> 0]}
        ELSE IF win # << >> THEN {ColumnOf(win[1])}
        ELSE IF block # << >> THEN {ColumnOf(block[1])}
        ELSE {ColumnOf(m) : m \in HeuristicChoices(board, moves, currentPlayer, winLength)}

(***************************************************************************)
(* Game session (the useGame hook)                                         *)
(*                                                                         *)
(* A session is a record of the hook's state: config, gameState,           *)
(* gameStatus, the isComputerThinking ref, the pending AI timeout, the     *)
(* injected move strategy, the transport's connection, the config captured *)
(* by the handleNetworkData closure registered with the transport, the     *)
(* messages handed to sendData by the current event, and whether a state   *)
(* updater raised an exception.  dirty marks that the event replaced the   *)
(* board array (a dependency of the AI effect, compared by identity).      *)
(***************************************************************************)

Undefined == "undefined"

Config(gridSize, winLength, gameMode) ==
    [gridSize |-> gridSize, winLength |-> winLength, gameMode |-> gameMode,
     myPlayerColor |-> Undefined]

\* useGame({ gridSize: 4, winLength: 4, gameMode: 'PvE' }, ...)
InitialConfig == [gridSize |-> 4, winLength |-> 4, gameMode |-> "PvE", myPlayerColor |-> Undefined]

NoTimer == [pending |-> FALSE]
Timer(board, winLength) == [pending |-> TRUE, board |-> board, winLength |-> winLength]

NoHandler == [registered |-> FALSE]
Handler(cfg) == [registered |-> TRUE, config |-> cfg]

\* useState / useRef initial values
InitialSession(strategy) ==
    [config |-> InitialConfig,
     gameState |-> [board |-> createEmptyBoard(InitialConfig.gridSize),
                    currentPlayer |-> "black",
                    winner |-> NoPlayer,
                    winningLine |-> NoLine,
                    history |-> << >>,
                    isDraw |-> FALSE,
                    networkStatus |-> "disconnected",
                    networkRoomId |-> Undefined],
     gameStatus |-> "setup",
     isComputerThinking |-> FALSE,
     timer |-> NoTimer,
     moveStrategy |-> strategy,
     conn |-> "none",
     handler |-> NoHandler,
     sent |-> << >>,
     crashed |-> FALSE,
     dirty |-> FALSE]

\* networkStrategy.sendData(data)
sendData(s, data) == [s EXCEPT !.sent = Append(@, data)]

\* PeerNetworkStrategy.disconnect
disconnect(s) == [s EXCEPT !.conn = "none", !.handler = NoHandler]

\* The effect without its cleanup: a timeout that is not replaced stays.
AITurnEffectNoCleanup(old, s) ==
    IF s.gameStatus # "playing" \/ s.config.gameMode # "PvE" THEN s
    ELSE IF /\ s.gameState.currentPlayer = "white"
            /\ s.gameState.winner = NoPlayer
            /\ ~s.isComputerThinking
         THEN [s EXCEPT !.isComputerThinking = TRUE,
                        !.timer = Timer(s.gameState.board, s.config.winLength)]
         ELSE s

\* The effect scheduling the AI on either colour's turn.
AITurnEffectAnyTurn(old, s) ==
    LET cleaned == [s EXCEPT !.timer = NoTimer] IN
    IF cleaned.gameStatus # "playing" \/ cleaned.config.gameMode # "PvE" THEN cleaned
    ELSE IF cleaned.gameState.winner = NoPlayer /\ ~cleaned.isComputerThinking
         THEN [cleaned EXCEPT !.isComputerThinking = TRUE,
                              !.timer = Timer(cleaned.gameState.board, cleaned.config.winLength)]
         ELSE cleaned

\* The AI Turn Handling effect, run after the render that follows an event:
\* when a dependency changed, the previous run's cleanup clears its timeout
\* and the effect body runs again.
AITurnEffect(old, s) ==
    LET depsChanged ==
            \/ s.dirty
            \/ s.gameState.currentPlayer # old.gameState.currentPlayer
            \/ s.gameState.winner # old.gameState.winner
            \/ s.gameStatus # old.gameStatus
            \/ s.config.gameMode # old.config.gameMode
            \/ s.config.winLength # old.config.winLength
        cleaned == [s EXCEPT !.timer = NoTimer]
    IN  IF ~depsChanged THEN s
        ELSE IF cleaned.gameStatus # "playing" \/ cleaned.config.gameMode # "PvE" THEN cleaned
        ELSE IF /\ cleaned.gameState.currentPlayer = "white"
                /\ cleaned.gameState.winner = NoPlayer
                /\ ~cleaned.isComputerThinking
             THEN [cleaned EXCEPT !.isComputerThinking = TRUE,
                                  !.timer = Timer(cleaned.gameState.board, cleaned.config.winLength)]
             ELSE cleaned

\* The render after an event: effects run, the event's marks are dropped.
Render(old, s) ==
    IF s.crashed THEN [s EXCEPT !.timer = NoTimer, !.dirty = FALSE]
    ELSE [AITurnEffect(old, s) EXCEPT !.dirty = FALSE]

\* The start of an event: nothing sent yet.
Begin(s) == [s EXCEPT !.sent = << >>, !.dirty = FALSE]

\* prevState.board.map(...): the board with the stone written at target
PlaceStone(board, target, player) ==
    [board EXCEPT ![target.z][target.y][target.x] = player]

\* The draw flag set from the full board alone.
DrawFlagIgnoringWinner(winner, newBoard) == isBoardFull(newBoard)

\* const isDraw = !winner && isBoardFull
DrawFlag(winner, newBoard) == winner = NoPlayer /\ isBoardFull(newBoard)

\* The turn kept on a winning or drawing move.
NextPlayerUnlessOver(prevPlayer, winner, isDraw) ==
    IF winner # NoPlayer \/ isDraw THEN prevPlayer ELSE Other(prevPlayer)

\* currentPlayer: prevState.currentPlayer === 'black' ? 'white' : 'black'
NextPlayerAfterMove(prevPlayer, winner, isDraw) == Other(prevPlayer)

\* applyMove notifying the peer before the position is resolved.
applyMoveSendFirst(s, cfg, inputX, inputY, inputZ, isRemote) ==
    LET prevState == s.gameState
        s0 == IF ~isRemote /\ cfg.gameMode = "Online" /\ prevState.networkStatus = "connected"
              THEN sendData(s, [type |-> "MOVE", x |-> inputX, y |-> inputY, z |-> inputZ])
              ELSE s
        target == determinePosition(s.moveStrategy, prevState.board, Coord(inputX, inputY, inputZ))
    IN  IF target.kind = "throw" THEN [s0 EXCEPT !.crashed = TRUE]
        ELSE IF target.kind = "null" THEN s0
        ELSE LET newBoard == PlaceStone(prevState.board, target.c, prevState.currentPlayer)
                 won == checkWin(newBoard, target.c, cfg.winLength)
                 isDraw == DrawFlag(won.winner, newBoard)
             IN  [s0 EXCEPT !.gameState = [prevState EXCEPT
                                 !.board = newBoard,
                                 !.currentPlayer =
                                     NextPlayerAfterMove(prevState.currentPlayer, won.winner, isDraw),
                                 !.winner = won.winner,
                                 !.winningLine = won.winningLine,
                                 !.history = Append(@, target.c),
                                 !.isDraw = isDraw],
                            !.dirty = TRUE,
                            !.gameStatus = IF won.winner # NoPlayer \/ isDraw
                                           THEN "finished" ELSE @]

\* applyMove, with cfg the config of the closure it runs in
applyMove(s, cfg, inputX, inputY, inputZ, isRemote) ==
    LET prevState == s.gameState
        target == determinePosition(s.moveStrategy, prevState.board, Coord(inputX, inputY, inputZ))
    IN  IF target.kind = "throw" THEN [s EXCEPT !.crashed = TRUE]
        ELSE IF target.kind = "null" THEN s
        ELSE LET newBoard == PlaceStone(prevState.board, target.c, prevState.currentPlayer)
                 won == checkWin(newBoard, target.c, cfg.winLength)
                 isDraw == DrawFlag(won.winner, newBoard)
                 nextState == [prevState EXCEPT
                                 !.board = newBoard,
                                 !.currentPlayer =
                                     NextPlayerAfterMove(prevState.currentPlayer, won.winner, isDraw),
                                 !.winner = won.winner,
                                 !.winningLine = won.winningLine,
                                 !.history = Append(@, target.c),
                                 !.isDraw = isDraw]
                 s1 == [s EXCEPT !.gameState = nextState,
                                 !.dirty = TRUE,
                                 !.gameStatus = IF won.winner # NoPlayer \/ isDraw
                                                THEN "finished" ELSE @]
             IN  IF ~isRemote /\ cfg.gameMode = "Online" /\ prevState.networkStatus = "connected"
                 THEN sendData(s1, [type |-> "MOVE", x |-> inputX, y |-> inputY, z |-> inputZ])
                 ELSE s1

\* makeMove without the online turn check.
makeMoveAnyTurn(s, inputX, inputY, inputZ) ==
    IF s.gameStatus # "playing" THEN s
    ELSE applyMove(s, s.config, inputX, inputY, inputZ, FALSE)

\* makeMove
makeMove(s, inputX, inputY, inputZ) ==
    IF s.gameStatus # "playing" THEN s
    ELSE IF s.config.gameMode = "Online" /\ s.gameState.currentPlayer # s.config.myPlayerColor THEN s
    ELSE applyMove(s, s.config, inputX, inputY, inputZ, FALSE)

\* newBoard[moveToRemove.z][moveToRemove.y][moveToRemove.x] = null on the
\* JSON copy of the board: a layer or row that does not exist raises a
\* TypeError, an x beyond the row adds an element to the row.
RemoveStone(board, c) ==
    IF c.z \notin DOMAIN board \/ c.y \notin DOMAIN board[c.z]
    THEN [threw |-> TRUE, board |-> board]
    ELSE [threw |-> FALSE,
          board |-> [board EXCEPT ![c.z][c.y] =
                       [x \in (DOMAIN @) \cup {c.x} |-> IF x = c.x THEN NoPlayer ELSE @[x]]]]

\* An undo that takes the stones of the first entries of the history.
RECURSIVE RemoveStonesOldestFirst(_, _, _, _)
RemoveStonesOldestFirst(board, history, stepsToUndo, i) ==
    IF i >= stepsToUndo THEN [threw |-> FALSE, board |-> board]
    ELSE LET r == RemoveStone(board, history[1 + i]) IN
         IF r.threw THEN r
         ELSE RemoveStonesOldestFirst(r.board, history, stepsToUndo, i + 1)

\* for (let i = 0; i < stepsToUndo; i++) over the last entries of history
RECURSIVE RemoveStones(_, _, _, _)
RemoveStones(board, history, stepsToUndo, i) ==
    IF i >= stepsToUndo THEN [threw |-> FALSE, board |-> board]
    ELSE LET r == RemoveStone(board, history[Len(history) - i]) IN
         IF r.threw THEN r
         ELSE RemoveStones(r.board, history, stepsToUndo, i + 1)

\* stepsToUndo; 0 stands for the early "return prev"
StepsToUndo(gameMode, prev) ==
    IF gameMode = "PvE"
    THEN IF prev.currentPlayer = "black" /\ Len(prev.history) >= 2 THEN 2
         ELSE IF prev.currentPlayer = "white" THEN 1
         ELSE 0
    ELSE 1

\* performUndo notifying the peer before it validates the request.
performUndoSendFirst(s, cfg, isRemote) ==
    LET s0 == IF cfg.gameMode = "Online" /\ ~isRemote
              THEN sendData(s, [type |-> "UNDO"]) ELSE s
        prev == s0.gameState
        stepsToUndo == StepsToUndo(cfg.gameMode, prev)
        removed == RemoveStones(prev.board, prev.history, stepsToUndo, 0)
        nextPlayer == IF cfg.gameMode = "PvP" \/ cfg.gameMode = "Online"
                      THEN Other(prev.currentPlayer) ELSE prev.currentPlayer
    IN  IF Len(s.gameState.history) = 0 \/ s.isComputerThinking THEN s0
        ELSE IF stepsToUndo = 0 THEN s0
        ELSE IF removed.threw THEN [s0 EXCEPT !.crashed = TRUE]
        ELSE [s0 EXCEPT !.dirty = TRUE,
                        !.gameState = [prev EXCEPT
                            !.board = removed.board,
                            !.currentPlayer = nextPlayer,
                            !.winner = NoPlayer,
                            !.winningLine = NoLine,
                            !.history = SubSeq(@, 1, Len(@) - stepsToUndo),
                            !.isDraw = FALSE]]

\* performUndo, with cfg the config of the closure it runs in
performUndo(s, cfg, isRemote) ==
    IF Len(s.gameState.history) = 0 \/ s.isComputerThinking THEN s
    ELSE LET s0 == IF cfg.gameMode = "Online" /\ ~isRemote
                   THEN sendData(s, [type |-> "UNDO"]) ELSE s
             prev == s0.gameState
             stepsToUndo == StepsToUndo(cfg.gameMode, prev)
             removed == RemoveStones(prev.board, prev.history, stepsToUndo, 0)
             nextPlayer == IF cfg.gameMode = "PvP" \/ cfg.gameMode = "Online"
                           THEN Other(prev.currentPlayer) ELSE prev.currentPlayer
         IN  IF stepsToUndo = 0 THEN s0
             ELSE IF removed.threw THEN [s0 EXCEPT !.crashed = TRUE]
             ELSE [s0 EXCEPT !.dirty = TRUE,
                             !.gameState = [prev EXCEPT
                                 !.board = removed.board,
                                 !.currentPlayer = nextPlayer,
                                 !.winner = NoPlayer,
                                 !.winningLine = NoLine,
                                 !.history = SubSeq(@, 1, Len(@) - stepsToUndo),
                                 !.isDraw = FALSE]]

\* undoMove
undoMove(s) == performUndo(s, s.config, FALSE)

\* The fresh game state of startNewGame.
FreshGameState(gridSize, networkStatus, networkRoomId) ==
    [board |-> createEmptyBoard(gridSize),
     currentPlayer |-> "black",
     winner |-> NoPlayer,
     winningLine |-> NoLine,
     history |-> << >>,
     isDraw |-> FALSE,
     networkStatus |-> networkStatus,
     networkRoomId |-> networkRoomId]

\* startNewGame
startNewGame(s, newConfig, preserveNetwork) ==
    [s EXCEPT !.config = newConfig,
              !.gameState = FreshGameState(newConfig.gridSize,
                                IF preserveNetwork THEN s.gameState.networkStatus ELSE "disconnected",
                                IF preserveNetwork THEN s.gameState.networkRoomId ELSE Undefined),
              !.dirty = TRUE,
              !.gameStatus = "playing",
              !.isComputerThinking = FALSE]

\* startGame
startGame(s, newConfig) == startNewGame(s, newConfig, FALSE)

\* The common part of hostOnlineGame and joinOnlineGame: the config gets the
\* local colour, the game state keeps everything but the board and the
\* network status, and the transport is handed the handleNetworkData of the
\* current render, whose closure holds the config as it is before this call.
EnterOnline(s, newConfig, color, conn) ==
    [disconnect(s) EXCEPT
        !.config = [newConfig EXCEPT !.myPlayerColor = color],
        !.gameState = [@ EXCEPT !.networkStatus = "connecting",
                                !.board = createEmptyBoard(newConfig.gridSize)],
        !.dirty = TRUE,
        !.conn = conn,
        !.handler = Handler(s.config)]

\* hostOnlineGame
hostOnlineGame(s, newConfig) == EnterOnline(s, newConfig, "black", "hostOpening")

\* joinOnlineGame
joinOnlineGame(s, newConfig) == EnterOnline(s, newConfig, "white", "joinOpening")

\* hostGame's onOpen callback
onOpen(s, id) ==
    [s EXCEPT !.conn = "hostListening",
              !.gameState = [@ EXCEPT !.networkRoomId = id, !.networkStatus = "waiting_opponent"]]

\* joinGame's peer.on('open'): this.conn = this.peer.connect(hostId)
onJoinPeerOpen(s) == [s EXCEPT !.conn = "joinConnecting"]

\* the onConnect callback of hostGame and joinGame
onConnect(s) ==
    [s EXCEPT !.conn = "open",
              !.gameState = [@ EXCEPT !.networkStatus = "connected"],
              !.gameStatus = "playing"]

\* A handler that applies the peer's MOVE and UNDO as if they were local.
handleNetworkDataAsLocal(s, data) ==
    LET cfg == s.handler.config IN
    IF data.type = "MOVE" THEN applyMove(s, cfg, data.x, data.y, data.z, FALSE)
    ELSE IF data.type = "RESET" THEN startNewGame(s, cfg, TRUE)
    ELSE IF data.type = "UNDO" THEN performUndo(s, cfg, FALSE)
    ELSE s

\* A handler that takes every message it does not know for a RESET.
handleNetworkDataResetByDefault(s, data) ==
    LET cfg == s.handler.config IN
    IF data.type = "MOVE" THEN applyMove(s, cfg, data.x, data.y, data.z, TRUE)
    ELSE IF data.type = "UNDO" THEN performUndo(s, cfg, TRUE)
    ELSE startNewGame(s, cfg, TRUE)

\* handleNetworkData, as registered with the transport
handleNetworkData(s, data) ==
    LET cfg == s.handler.config IN
    IF data.type = "MOVE" THEN applyMove(s, cfg, data.x, data.y, data.z, TRUE)
    ELSE IF data.type = "RESET" THEN startNewGame(s, cfg, TRUE)
    ELSE IF data.type = "UNDO" THEN performUndo(s, cfg, TRUE)
    ELSE s

\* A reset that reopens the game and keeps board and history.
resetGameStatusOnly(s) ==
    [s EXCEPT !.gameStatus = "playing", !.isComputerThinking = FALSE, !.dirty = TRUE]

\* A reset that does not ask startNewGame to preserve the network state.
resetGameDroppingNetwork(s) ==
    IF s.config.gameMode = "Online"
    THEN sendData(startNewGame(s, s.config, FALSE), [type |-> "RESET"])
    ELSE startNewGame(s, s.config, FALSE)

\* resetGame
resetGame(s) ==
    IF s.config.gameMode = "Online"
    THEN sendData(startNewGame(s, s.config, TRUE), [type |-> "RESET"])
    ELSE startNewGame(s, s.config, FALSE)

\* A return to the setup form that leaves the network session open.
returnToSetupStayingConnected(s) ==
    [s EXCEPT !.gameStatus = "setup", !.isComputerThinking = FALSE]

\* returnToSetup
returnToSetup(s) ==
    [disconnect(s) EXCEPT !.gameStatus = "setup", !.isComputerThinking = FALSE]

\* The setTimeout callback of the AI effect, bestMove being one of the
\* columns calculateMove can return for the board the effect captured.
aiTimeout(s, bestMove) ==
    [applyMove([s EXCEPT !.timer = NoTimer], s.config, bestMove.x, bestMove.y, 0, FALSE)
        EXCEPT !.isComputerThinking = FALSE]

(***************************************************************************)
(* Bounds and inputs                                                       *)
(***************************************************************************)

\* the longest history a game is followed to
MaxPlies == 3

\* the most games begun from the setup form in one run
MaxSessions == 2

\* the most stones on a board handed to the pure functions
MaxStones == 3

\* the board sizes and win lengths handed to the pure functions
FnGridSizes == {2, 3}
FnWinLengths == {2, 3}

\* the configurations submitted to the engine, as <<gridSize, winLength>>:
\* boards small enough that a game is followed to its end
Shapes == {<<1, 1>>, <<1, 2>>, <<2, 2>>}
SetupConfigs(modes) ==
    {Config(sh[1], sh[2], m) : sh \in Shapes, m \in modes}

\* the configurations hosted or joined online: the board a single stone
\* fills and the board with columns
OnlineShapes == {<<1, 1>>, <<2, 2>>}
OnlineConfigs == {Config(sh[1], sh[2], "Online") : sh \in OnlineShapes}

\* the layers a click can name
InputZs == {1}

\* the columns a click or a peer's MOVE can name, on a board of that size
ClickXs == {0, 1}
ClickYs == {0}
Clicks(size) ==
    {<<x, y>> : x \in ClickXs \cap 0..(size - 1), y \in ClickYs \cap 0..(size - 1)}

\* the messages a peer can send: the three kinds the engine knows, a MOVE
\* into a row past the end of the board among them, and one kind it does
\* not know
PeerMessages(size) ==
    {[type |-> "MOVE", x |-> c[1], y |-> c[2], z |-> 0] : c \in Clicks(size)}
    \cup {[type |-> "MOVE", x |-> 0, y |-> size, z |-> 0]}
    \cup {[type |-> "UNDO"], [type |-> "RESET"], [type |-> "PING"]}

(***************************************************************************)
(* State                                                                   *)
(***************************************************************************)

VARIABLES
    config,              \* useState<GameConfig>
    gameState,           \* useState<GameState>
    gameStatus,          \* useState<'setup' | 'playing' | 'finished'>
    isComputerThinking,  \* useRef(false)
    timer,               \* the AI effect's pending setTimeout
    moveStrategy,        \* the injected IMoveStrategy
    conn,                \* the transport's peer and connection
    handler,             \* the onData closure the transport holds
    sent,                \* messages handed to sendData by the last event
    crashed,             \* an exception escaped a state updater
    sessions,            \* how many games the setup form has begun
    ev,                  \* the last event: what it was and what it found
    fn,                  \* the board and results of the pure-function harness
    peers,               \* the sessions of two connected peers, host and join
    links                \* per peer, the messages in flight towards it

sessionVars == <<config, gameState, gameStatus, isComputerThinking, timer, moveStrategy,
                 conn, handler, sent, crashed>>

vars == <<config, gameState, gameStatus, isComputerThinking, timer, moveStrategy,
          conn, handler, sent, crashed, sessions, ev, fn, peers, links>>

\* the session the variables hold
Me ==
    [config |-> config, gameState |-> gameState, gameStatus |-> gameStatus,
     isComputerThinking |-> isComputerThinking, timer |-> timer,
     moveStrategy |-> moveStrategy, conn |-> conn, handler |-> handler,
     sent |-> sent, crashed |-> crashed, dirty |-> FALSE]

Holds(s) ==
    /\ config = s.config
    /\ gameState = s.gameState
    /\ gameStatus = s.gameStatus
    /\ isComputerThinking = s.isComputerThinking
    /\ timer = s.timer
    /\ moveStrategy = s.moveStrategy
    /\ conn = s.conn
    /\ handler = s.handler
    /\ sent = s.sent
    /\ crashed = s.crashed

Install(s) ==
    /\ config' = s.config
    /\ gameState' = s.gameState
    /\ gameStatus' = s.gameStatus
    /\ isComputerThinking' = s.isComputerThinking
    /\ timer' = s.timer
    /\ moveStrategy' = s.moveStrategy
    /\ conn' = s.conn
    /\ handler' = s.handler
    /\ sent' = s.sent
    /\ crashed' = s.crashed

\* board, turn, result and history of a game state
Core(gs) ==
    [board |-> gs.board, currentPlayer |-> gs.currentPlayer, winner |-> gs.winner,
     winningLine |-> gs.winningLine, history |-> gs.history, isDraw |-> gs.isDraw]

NoSnap == [taken |-> FALSE]
Snap(gs) == [taken |-> TRUE, core |-> Core(gs)]

SetupOps == {"startGame", "hostOnlineGame", "joinOnlineGame"}
MoveOps == {"makeMove", "aiTimeout", "recvMOVE"}
UndoOps == {"undoMove", "recvUNDO"}

\* The record of an event op that took the session from old to new:
\*   from     the status it found,      changed  whether the game changed,
\*   seq      "moved" after a move that placed a stone, "undone" after an
\*            undo of one ply that directly follows such a move,
\*   snap     the game as it was before that move,
\*   pending  whether it found an AI computation scheduled.
EventRecord(op, old, new) ==
    LET plies == Len(new.gameState.history) - Len(old.gameState.history)
        seq == IF op \in MoveOps /\ plies = 1 THEN "moved"
               ELSE IF op \in UndoOps /\ plies = -1 /\ ev.seq = "moved" THEN "undone"
               ELSE "none"
    IN  [op |-> op,
         from |-> old.gameStatus,
         changed |-> Core(new.gameState) # Core(old.gameState),
         seq |-> seq,
         snap |-> IF seq = "moved" THEN Snap(old.gameState)
                  ELSE IF seq = "undone" THEN ev.snap
                  ELSE NoSnap,
         pending |-> old.timer.pending]

\* One event: the handler runs on the session, the render follows.
Event(op, result) ==
    \E old \in {Me} : \E new \in {Render(old, result)} :
        /\ Install(new)
        /\ ev' = EventRecord(op, old, new)
        /\ sessions' = IF op \in SetupOps THEN sessions + 1 ELSE sessions
        /\ UNCHANGED <<fn, peers, links>>

NoCall == [f |-> "none"]

\* no pair of peers is followed
Unpaired == peers = << >> /\ links = << >>

\* the hook as mounted by App: useGame({4, 4, 'PvE'}, gravity, ...)
MountedAlone ==
    /\ Holds(InitialSession("gravity"))
    /\ ev = [op |-> "init", from |-> "setup", changed |-> FALSE, seq |-> "none",
             snap |-> NoSnap, pending |-> FALSE]
    /\ sessions = 0

Mounted == MountedAlone /\ Unpaired

Init ==
    /\ Mounted
    /\ fn = [board |-> createEmptyBoard(0), stones |-> 0, out |-> NoCall]

(***************************************************************************)
(* Events of a session                                                     *)
(***************************************************************************)

\* The setup form is on screen: status setup, and not the waiting screen
\* of an online game that is connecting.
SetupFormShown ==
    /\ gameStatus = "setup"
    /\ ~(config.gameMode = "Online"
         /\ gameState.networkStatus \in {"connecting", "waiting_opponent"})

Alive == ~crashed

StartGame ==
    /\ Alive /\ SetupFormShown /\ sessions < MaxSessions
    /\ \E cfg \in SetupConfigs({"PvP", "PvE"}) :
        Event("startGame", startGame(Begin(Me), cfg))

HostOnlineGame ==
    /\ Alive /\ SetupFormShown /\ sessions < MaxSessions
    /\ \E cfg \in OnlineConfigs :
        Event("hostOnlineGame", hostOnlineGame(Begin(Me), cfg))

JoinOnlineGame ==
    /\ Alive /\ SetupFormShown /\ sessions < MaxSessions
    /\ \E cfg \in OnlineConfigs :
        Event("joinOnlineGame", joinOnlineGame(Begin(Me), cfg))

PeerOpens ==
    /\ Alive
    /\ \/ /\ conn = "hostOpening"
          /\ Event("onOpen", onOpen(Begin(Me), "room"))
       \/ /\ conn = "joinOpening"
          /\ Event("onJoinPeerOpen", onJoinPeerOpen(Begin(Me)))

ConnectionOpens ==
    /\ Alive
    /\ conn \in {"hostListening", "joinConnecting"}
    /\ Event("onConnect", onConnect(Begin(Me)))

MakeMove ==
    /\ Alive
    /\ Len(gameState.history) < MaxPlies
    /\ \E c \in Clicks(config.gridSize), z \in InputZs :
        Event("makeMove", makeMove(Begin(Me), c[1], c[2], z))

AiTimeout ==
    /\ Alive
    /\ timer.pending
    /\ Len(gameState.history) < MaxPlies
    /\ \E bestMove \in calculateMove(timer.board, "white", timer.winLength) :
        Event("aiTimeout", aiTimeout(Begin(Me), bestMove))

UndoMove ==
    /\ Alive
    /\ gameStatus # "setup"
    /\ Event("undoMove", undoMove(Begin(Me)))

ResetGame ==
    /\ Alive
    /\ gameStatus # "setup"
    /\ Event("resetGame", resetGame(Begin(Me)))

ReturnToSetup ==
    /\ Alive
    /\ Event("returnToSetup", returnToSetup(Begin(Me)))

ReceiveData ==
    /\ Alive
    /\ conn = "open"
    /\ \E data \in PeerMessages(config.gridSize) :
        /\ data.type = "MOVE" => Len(gameState.history) < MaxPlies
        /\ Event("recv" \o data.type, handleNetworkData(Begin(Me), data))

Next ==
    \/ StartGame
    \/ HostOnlineGame
    \/ JoinOnlineGame
    \/ PeerOpens
    \/ ConnectionOpens
    \/ MakeMove
    \/ AiTimeout
    \/ UndoMove
    \/ ResetGame
    \/ ReturnToSetup
    \/ ReceiveData

Spec == Init /\ [][Next]_vars

(***************************************************************************)
(* The pure functions on their own: a board is built stone by stone, the   *)
(* colours taking turns and each stone dropped into a column as in play,   *)
(* and a function is applied to it, once per board and input.              *)
(***************************************************************************)

InitFn ==
    /\ Mounted
    /\ \E size \in FnGridSizes :
        fn = [board |-> createEmptyBoard(size), stones |-> 0, out |-> NoCall]

Untouched == UNCHANGED <<sessionVars, sessions, ev, peers, links>>

NotApplied == fn.out = NoCall

FnDropStone ==
    /\ NotApplied
    /\ fn.stones < MaxStones
    /\ \E x \in DOMAIN fn.board, y \in DOMAIN fn.board :
        LET pos == GravityDeterminePosition(fn.board, Coord(x, y, 0))
            player == IF fn.stones % 2 = 0 THEN "black" ELSE "white"
        IN
        /\ pos.kind = "coord"
        /\ fn' = [board |-> PlaceStone(fn.board, pos.c, player),
                  stones |-> fn.stones + 1, out |-> NoCall]
    /\ Untouched

FnDeterminePosition ==
    /\ NotApplied
    /\ \E input \in Cells(BoardSize(fn.board)) :
        fn' = [fn EXCEPT !.out = [f |-> "determinePosition", input |-> input,
                                  result |-> GravityDeterminePosition(fn.board, input)]]
    /\ Untouched

\* the values an input coordinate takes on each axis: below the board, on
\* it, and past its end
AxisValues(size) == {-1, 0, size}

\* Either strategy applied to a coordinate that may lie outside the board.
FnResolveAnywhere ==
    /\ NotApplied
    /\ \E strategy \in {"gravity", "free"} :
       \E x \in AxisValues(BoardSize(fn.board)), y \in AxisValues(BoardSize(fn.board)),
          z \in AxisValues(BoardSize(fn.board)) :
        fn' = [fn EXCEPT !.out = [f |-> "resolve", strategy |-> strategy,
                                  input |-> Coord(x, y, z),
                                  result |-> determinePosition(strategy, fn.board,
                                                               Coord(x, y, z))]]
    /\ Untouched

FnCheckWin ==
    /\ NotApplied
    /\ \E lastMove \in Cells(BoardSize(fn.board)), winLength \in FnWinLengths :
        /\ fn.board[lastMove.z][lastMove.y][lastMove.x] # NoPlayer
        /\ fn' = [fn EXCEPT !.out = [f |-> "checkWin", lastMove |-> lastMove,
                                     winLength |-> winLength,
                                     result |-> checkWin(fn.board, lastMove, winLength)]]
    /\ Untouched

\* the move asked for is white's, as in the AI effect
FnCalculateMove ==
    /\ NotApplied
    /\ \E player \in {"white"}, winLength \in FnWinLengths :
        fn' = [fn EXCEPT !.out = [f |-> "calculateMove", player |-> player,
                                  winLength |-> winLength,
                                  result |-> calculateMove(fn.board, player, winLength),
                                  boardAfter |->
                                      BoardAfterCalculateMove(fn.board, player, winLength)]]
    /\ Untouched

NextFn ==
    \/ FnDropStone
    \/ FnDeterminePosition
    \/ FnResolveAnywhere
    \/ FnCheckWin
    \/ FnCalculateMove

SpecFn == InitFn /\ [][NextFn]_vars

(***************************************************************************)
(* Win detection on longer runs: stones are dropped, the colours taking    *)
(* turns, into the columns of one vertical plane of a board large enough   *)
(* for a stone to sit in the middle of a run, and checkWin is applied.     *)
(***************************************************************************)

\* the board size and the most stones of these boards
LineGridSize == 3
MaxLineStones == 5

\* the columns (x, y) stones are dropped into
LineColumns == {<<x, 0>> : x \in 0..(LineGridSize - 1)}

InitLine ==
    /\ Mounted
    /\ fn = [board |-> createEmptyBoard(LineGridSize), stones |-> 0, out |-> NoCall]

LineDropStone ==
    /\ NotApplied
    /\ fn.stones < MaxLineStones
    /\ \E col \in LineColumns :
        LET pos == GravityDeterminePosition(fn.board, Coord(col[1], col[2], 0))
            player == IF fn.stones % 2 = 0 THEN "black" ELSE "white"
        IN
        /\ pos.kind = "coord"
        /\ fn' = [board |-> PlaceStone(fn.board, pos.c, player),
                  stones |-> fn.stones + 1, out |-> NoCall]
    /\ Untouched

NextLine ==
    \/ LineDropStone
    \/ FnCheckWin

SpecLine == InitLine /\ [][NextLine]_vars

(***************************************************************************)
(* Two peers of one online game: each runs the hook, what one hands to     *)
(* sendData is delivered to the other in order, one message at a time.     *)
(***************************************************************************)

\* the most stones either peer's history is followed to
MaxPeerPlies == 2

\* the most messages in flight towards one peer
MaxInFlight == 1

\* the game the two peers set up
PeerConfig == Config(2, 2, "Online")

PeerNames == {"host", "join"}
OtherPeer(p) == IF p = "host" THEN "join" ELSE "host"

\* One event at a session: the handler's result, then the render.
After(s, result) == Render(s, result)

\* The host of a game, connected: hostOnlineGame, the peer opens, the
\* joiner connects.
Hosting(s0, cfg) ==
    LET a == After(s0, hostOnlineGame(Begin(s0), cfg))
        b == After(a, onOpen(Begin(a), "room"))
    IN  After(b, onConnect(Begin(b)))

\* The joiner of a game, connected.
Joining(s0, cfg) ==
    LET a == After(s0, joinOnlineGame(Begin(s0), cfg))
        b == After(a, onJoinPeerOpen(Begin(a)))
    IN  After(b, onConnect(Begin(b)))

\* How a peer came to the game: from the freshly loaded app, or after
\* leaving an earlier online game with the same settings in which no
\* stone was played.
PeerStarts == {"fresh", "again"}

HostFrom(start) ==
    LET s0 == InitialSession("gravity")
        h == Hosting(s0, PeerConfig)
    IN  IF start = "fresh" THEN h
        ELSE Hosting(After(h, returnToSetup(Begin(h))), PeerConfig)

JoinFrom(start) ==
    LET s0 == InitialSession("gravity")
        j == Joining(s0, PeerConfig)
    IN  IF start = "fresh" THEN j
        ELSE Joining(After(j, returnToSetup(Begin(j))), PeerConfig)

InitPeers ==
    /\ MountedAlone
    /\ fn = [board |-> createEmptyBoard(0), stones |-> 0, out |-> NoCall]
    /\ \E start \in PeerStarts :
        peers = [host |-> HostFrom(start), join |-> JoinFrom(start)]
    /\ links = [host |-> << >>, join |-> << >>]

\* Peer p handles an event; what it sends goes towards the other peer.
PeerEvent(p, result) ==
    \E new \in {After(peers[p], result)} :
        /\ Len(links[OtherPeer(p)]) + Len(new.sent) <= MaxInFlight
        /\ peers' = [peers EXCEPT ![p] = new]
        /\ links' = [links EXCEPT ![OtherPeer(p)] = @ \o new.sent]
        /\ UNCHANGED <<sessionVars, sessions, ev, fn>>

PeerMakeMove ==
    \E p \in PeerNames :
        /\ ~peers[p].crashed
        /\ Len(peers[p].gameState.history) < MaxPeerPlies
        /\ \E c \in Clicks(peers[p].config.gridSize), z \in InputZs :
            PeerEvent(p, makeMove(Begin(peers[p]), c[1], c[2], z))

PeerUndoMove ==
    \E p \in PeerNames :
        /\ ~peers[p].crashed
        /\ peers[p].gameStatus # "setup"
        /\ PeerEvent(p, undoMove(Begin(peers[p])))

PeerResetGame ==
    \E p \in PeerNames :
        /\ ~peers[p].crashed
        /\ peers[p].gameStatus # "setup"
        /\ PeerEvent(p, resetGame(Begin(peers[p])))

\* conn.on('data', ...): the oldest message in flight towards p arrives
PeerReceiveData ==
    \E p \in PeerNames :
        /\ ~peers[p].crashed
        /\ links[p] # << >>
        /\ \E data \in {Head(links[p])} : \E new \in {After(peers[p],
                                    handleNetworkData(Begin(peers[p]), data))} :
            /\ data.type = "MOVE" => Len(peers[p].gameState.history) < MaxPeerPlies + 1
            /\ Len(links[OtherPeer(p)]) + Len(new.sent) <= MaxInFlight
            /\ peers' = [peers EXCEPT ![p] = new]
            /\ links' = [links EXCEPT ![p] = Tail(@),
                                      ![OtherPeer(p)] = @ \o new.sent]
            /\ UNCHANGED <<sessionVars, sessions, ev, fn>>

NextPeers ==
    \/ PeerMakeMove
    \/ PeerUndoMove
    \/ PeerResetGame
    \/ PeerReceiveData

SpecPeers == InitPeers /\ [][NextPeers]_vars

(***************************************************************************)
(* Properties of the pure functions, checked under SpecFn                  *)
(***************************************************************************)

\* the layers of column (x, y) whose cell is empty
EmptyLayers(board, x, y) == {z \in DOMAIN board : board[z][y][x] = NoPlayer}

Lowest(S) == CHOOSE z \in S : \A w \in S : z <= w

\* C1: for an in-bounds column (x, y), the gravity policy returns (x, y, z)
\* with z the smallest layer whose cell in the column is empty, whatever the
\* input z, and returns null when the column has no empty cell.
C1_GravityLowestEmpty ==
    fn.out.f = "determinePosition" =>
        LET input == fn.out.input
            empty == EmptyLayers(fn.board, input.x, input.y)
        IN  IF empty = {} THEN fn.out.result = PosNull
            ELSE fn.out.result = PosAt(Coord(input.x, input.y, Lowest(empty)))

\* a click on a layer other than the one the stone lands on, above a stone
C1_ClickedAnotherLayer ==
    /\ fn.out.f = "determinePosition"
    /\ fn.out.result.kind = "coord"
    /\ fn.out.result.c.z > 0
    /\ fn.out.input.z # fn.out.result.c.z

\* one direction for every line through a cell: the steps to a neighbour,
\* a step and its opposite counted once
AllDirections ==
    {d \in {-1, 0, 1} \X {-1, 0, 1} \X {-1, 0, 1} :
        \/ d[1] = 1
        \/ d[1] = 0 /\ d[2] = 1
        \/ d[1] = 0 /\ d[2] = 0 /\ d[3] = 1}

\* the cells c, c + d, ..., c + n * d are on the board and held by player
HeldUpTo(board, player, c, d, n) ==
    \A k \in 0..n :
        LET x == c.x + k * d[1]
            y == c.y + k * d[2]
            z == c.z + k * d[3]
        IN  /\ z \in DOMAIN board /\ y \in DOMAIN board[z] /\ x \in DOMAIN board[z][y]
            /\ board[z][y][x] = player

\* the length of the maximal run of player's cells through c on the line of
\* direction d
RunLength(board, player, c, d) ==
    LET size == BoardSize(board)
        back == <<0 - d[1], 0 - d[2], 0 - d[3]>>
    IN  1 + Cardinality({n \in 1..(size - 1) : HeldUpTo(board, player, c, d, n)})
          + Cardinality({n \in 1..(size - 1) : HeldUpTo(board, player, c, back, n)})

HasRun(board, player, c, winLength) ==
    \E d \in AllDirections : RunLength(board, player, c, d) >= winLength

\* C2: for an occupied cell c held by P, checkWin reports winner P exactly
\* when the maximal run of P-cells through c along some line direction has
\* length >= winLength, and otherwise reports no winner and no winning line.
C2_WinIffRun ==
    fn.out.f = "checkWin" =>
        LET c == fn.out.lastMove
            player == fn.board[c.z][c.y][c.x]
        IN  IF HasRun(fn.board, player, c, fn.out.winLength)
            THEN fn.out.result.winner = player
            ELSE fn.out.result = NoWin

\* a win reported for a cell at the far end of its run
C2_WinAtEndOfRun ==
    /\ fn.out.f = "checkWin"
    /\ fn.out.result.winner # NoPlayer
    /\ \A d \in {<<1, 0, 0>>, <<0, 1, 0>>, <<0, 0, 1>>} :
        ~HeldUpTo(fn.board, fn.out.result.winner, fn.out.lastMove, d, 1)

\* the columns that are not full and whose landing cell completes a run of
\* winLength or more for player, as <<x, y>>
WinningColumns(board, player, winLength) ==
    {col \in (DOMAIN board) \X (DOMAIN board) :
        /\ EmptyLayers(board, col[1], col[2]) # {}
        /\ LET c == Coord(col[1], col[2], Lowest(EmptyLayers(board, col[1], col[2]))) IN
           HasRun([board EXCEPT ![c.z][c.y][c.x] = player], player, c, winLength)}

\* the first column in enumeration order, x outer and y inner
FirstColumn(S) ==
    CHOOSE col \in S : \A o \in S : col[1] < o[1] \/ (col[1] = o[1] /\ col[2] <= o[2])

\* C4: when some non-full column's landing cell completes a run of
\* winLength or more for the AI's colour, calculateMove returns the first
\* such column in enumeration order, even when the opponent also has an
\* immediate winning column.
C4_TakesFirstWin ==
    fn.out.f = "calculateMove" =>
        \A wins \in {WinningColumns(fn.board, fn.out.player, fn.out.winLength)} :
            wins # {} =>
                \A first \in {FirstColumn(wins)} :
                    fn.out.result = {[x |-> first[1], y |-> first[2]]}

\* both colours have a winning column and the first of each differ
C4_WinOverBlock ==
    /\ fn.out.f = "calculateMove"
    /\ LET wins == WinningColumns(fn.board, fn.out.player, fn.out.winLength)
           losses == WinningColumns(fn.board, Other(fn.out.player), fn.out.winLength)
       IN  /\ wins # {} /\ losses # {}
           /\ FirstColumn(wins) # FirstColumn(losses)
           /\ fn.out.result = {[x |-> FirstColumn(wins)[1], y |-> FirstColumn(wins)[2]]}

\* C5: when no legal column wins at once for the AI but some legal column's
\* landing cell completes a run of winLength or more for the opponent,
\* calculateMove returns a column whose landing cell is such a cell.
C5_BlocksOpponentWin ==
    fn.out.f = "calculateMove" =>
        \A wins \in {WinningColumns(fn.board, fn.out.player, fn.out.winLength)} :
            wins = {} =>
                \A losses \in {WinningColumns(fn.board, Other(fn.out.player),
                                               fn.out.winLength)} :
                    losses # {} => \A r \in fn.out.result : <<r.x, r.y>> \in losses

\* the opponent threatens, the AI has no win, and some legal column would
\* not block
C5_BlockChosen ==
    /\ fn.out.f = "calculateMove"
    /\ LET wins == WinningColumns(fn.board, fn.out.player, fn.out.winLength)
           losses == WinningColumns(fn.board, Other(fn.out.player), fn.out.winLength)
       IN  /\ wins = {} /\ losses # {}
           /\ \E m \in 1..Len(validMoves(fn.board)) :
                <<validMoves(fn.board)[m].x, validMoves(fn.board)[m].y>> \notin losses
           /\ \A r \in fn.out.result : <<r.x, r.y>> \in losses

(***************************************************************************)
(* Properties of the session, checked under Spec                           *)
(***************************************************************************)

TwoPlayerModes == {"PvP", "Online"}

\* C3: in local two-player and online modes, a move that placed a stone
\* and is directly followed by an undo of one ply leaves the board, the
\* player to move, the winner, the winning line, the draw flag and the
\* history exactly as they were before the move.
C3_UndoInvertsMove ==
    (ev.seq = "undone" /\ config.gameMode \in TwoPlayerModes) =>
        Core(gameState) = ev.snap.core

\* C6: the draw flag is set only when there is no winner.
C6_NeverWinnerAndDraw ==
    gameState.isDraw => gameState.winner = NoPlayer

\* a winning stone that filled the board
C6_WinOnFullBoard ==
    /\ ev.seq = "moved"
    /\ gameState.winner # NoPlayer
    /\ isBoardFull(gameState.board)
    /\ ~gameState.isDraw

\* C7: when the status becomes playing from setup, by start or by a hosted
\* or joined game connecting, the board is empty, it is black's turn, the
\* history is empty, there is no winner and no winning line, and the draw
\* flag is off, whatever was played before.
C7_FreshOnPlaying ==
    (ev.from = "setup" /\ gameStatus = "playing") =>
        /\ gameState.board = createEmptyBoard(config.gridSize)
        /\ gameState.currentPlayer = "black"
        /\ gameState.history = << >>
        /\ gameState.winner = NoPlayer
        /\ gameState.winningLine = NoLine
        /\ ~gameState.isDraw

\* C8: an undo that takes effect while the status is finished sets the
\* status back to playing.
C8_UndoReopensGame ==
    (ev.op \in UndoOps /\ ev.from = "finished" /\ ev.changed) =>
        gameStatus = "playing"

\* C9 as stated: a move that placed a stone switches the turn exactly when
\* it produced neither a winner nor a draw.
C9_TurnKeptWhenOver ==
    ev.seq = "moved" =>
        ((gameState.currentPlayer # ev.snap.core.currentPlayer)
            <=> (gameState.winner = NoPlayer /\ ~gameState.isDraw))

\* C9: a move that placed a stone always switches the turn to the other
\* player, on a winning or drawing move too.
C9_TurnAlwaysSwitches ==
    ev.seq = "moved" =>
        gameState.currentPlayer = Other(ev.snap.core.currentPlayer)

\* a winning or drawing move, after which the turn is the other player's
C9_TurnSwitchedOnLastMove ==
    /\ ev.seq = "moved"
    /\ gameState.winner # NoPlayer \/ gameState.isDraw
    /\ gameState.currentPlayer = Other(ev.snap.core.currentPlayer)

\* C10: a move submitted while the status is not playing, by a click, by
\* the AI or by a peer's MOVE, changes neither board, history, turn, winner
\* nor draw flag.
C10_MoveNeedsPlaying ==
    (ev.op \in MoveOps /\ ev.from # "playing") => ~ev.changed

\* C11: the in-flight AI flag is set only while a deferred AI computation
\* is scheduled and has neither completed nor been cancelled; a cancellation
\* by a state change during the think delay clears it too.
C11_FlagOnlyWhilePending ==
    (Alive /\ isComputerThinking) => timer.pending

\* C12: in vs-AI mode, while the status is playing, it is white's turn and
\* there is no winner, an AI computation is scheduled, so that the AI's
\* stone is placed once the timer fires; the session never rests in playing
\* with the AI to move and nothing scheduled.
C12_AiMoveScheduled ==
    (/\ Alive
     /\ config.gameMode = "PvE"
     /\ gameStatus = "playing"
     /\ gameState.currentPlayer = "white"
     /\ gameState.winner = NoPlayer) => timer.pending

RestartOps == {"resetGame", "recvRESET", "startGame", "returnToSetup"}

\* C13: a reset, start or return to setup that finds an AI computation
\* pending discards it: nothing is scheduled afterwards, and a scheduled
\* computation always belongs to a playing session and to its current board.
C13_PendingDiscarded ==
    /\ (ev.pending /\ ev.op \in RestartOps) => ~timer.pending
    /\ timer.pending => (gameStatus = "playing" /\ timer.board = gameState.board)

\* a reset or a return to setup during the AI's think delay
C13_RestartWhilePending ==
    /\ ev.pending
    /\ ev.op \in {"resetGame", "returnToSetup"}
    /\ ~timer.pending

\* C14: at most one AI stone is placed per AI turn: a scheduled computation
\* is the in-flight one of a vs-AI game with white to move, and when it
\* completes it leaves nothing scheduled and, if it placed a stone, that
\* stone is white's and the turn is black's.
C14_OneAiMovePerTurn ==
    /\ timer.pending =>
            /\ isComputerThinking
            /\ config.gameMode = "PvE"
            /\ gameState.currentPlayer = "white"
            /\ gameState.winner = NoPlayer
    /\ ev.op = "aiTimeout" =>
            /\ ~timer.pending
            /\ ev.changed =>
                    /\ ev.seq = "moved"
                    /\ ev.snap.core.currentPlayer = "white"
                    /\ gameState.currentPlayer = "black"

\* the scheduled computation completed and placed the AI's stone
C14_AiStonePlaced ==
    /\ ev.op = "aiTimeout"
    /\ ev.pending
    /\ ev.seq = "moved"
    /\ gameState.currentPlayer = "black"
    /\ ~timer.pending

\* the cell a move into column c would take on the current board
Resolved(c, z) == determinePosition(moveStrategy, gameState.board, Coord(c[1], c[2], z))

NotMyTurn ==
    config.gameMode = "Online" /\ gameState.currentPlayer # config.myPlayerColor

\* C15: in online mode a local move submitted while the player to move is
\* not the local colour changes nothing and sends no MOVE, whereas a peer's
\* MOVE is refused only for a full column: it places the stone of the
\* player to move whoever that is, and is not echoed.
C15_TurnCheckLocalOnly ==
    /\ NotMyTurn =>
            \A c \in Clicks(config.gridSize), z \in InputZs :
                makeMove(Begin(Me), c[1], c[2], z) = Begin(Me)
    /\ (ev.op = "recvMOVE" /\ Alive) =>
            /\ sent = << >>
            /\ ev.changed \/ \E c \in Clicks(config.gridSize) : Resolved(c, 0).kind = "null"
            /\ ev.changed =>
                    /\ ev.seq = "moved"
                    /\ LET last == gameState.history[Len(gameState.history)] IN
                        gameState.board[last.z][last.y][last.x] = ev.snap.core.currentPlayer

\* a local click refused for the turn alone, every column having room, in
\* a connected online game
C15_LocalMoveRefused ==
    /\ ev.op = "makeMove"
    /\ ev.from = "playing"
    /\ gameStatus = "playing"
    /\ NotMyTurn
    /\ conn = "open"
    /\ ~ev.changed
    /\ sent = << >>
    /\ \A c \in Clicks(config.gridSize) : Resolved(c, 1).kind = "coord"

\* game, status and outbox of r are those the event found
NothingDone(r) ==
    /\ r.gameState = gameState
    /\ r.gameStatus = gameStatus
    /\ r.sent = << >>
    /\ r.crashed = crashed

\* C16: a move for which Move Resolution fails (under gravity, a full
\* column) leaves board, history, turn, winner, draw flag and status as they
\* are and sends no MOVE, be it a local click, the completion of the AI's
\* computation or a peer's MOVE.
C16_FailedResolutionNoOp ==
    \A c \in Clicks(config.gridSize), z \in InputZs :
        Resolved(c, z).kind = "null" =>
            /\ NothingDone(makeMove(Begin(Me), c[1], c[2], z))
            /\ timer.pending =>
                    NothingDone(aiTimeout(Begin(Me), [x |-> c[1], y |-> c[2]]))
            /\ conn = "open" =>
                    NothingDone(handleNetworkData(Begin(Me),
                                    [type |-> "MOVE", x |-> c[1], y |-> c[2], z |-> z]))

\* a click in a playing game, on the clicking player's turn, that changed
\* nothing because the column is full
C16_ClickOnFullColumn ==
    /\ ev.op = "makeMove"
    /\ ev.from = "playing"
    /\ gameStatus = "playing"
    /\ Alive
    /\ ~NotMyTurn
    /\ ~ev.changed
    /\ sent = << >>
    /\ \E c \in Clicks(config.gridSize) : Resolved(c, 1).kind = "null"

\* what an undo requested now would make of the session: the local
\* request when a game is on screen, the peer's when connected
LocalUndo == IF gameStatus # "setup" THEN {undoMove(Begin(Me))} ELSE {}
RemoteUndo == IF conn = "open" THEN {handleNetworkData(Begin(Me), [type |-> "UNDO"])} ELSE {}

\* the plies an undo is to remove in the session's mode
PliesToUndo ==
    IF config.gameMode = "PvE" /\ gameState.currentPlayer = "black"
       /\ Len(gameState.history) >= 2
    THEN 2 ELSE 1

\* r is the game with its last n plies taken back
TakenBack(r, n) ==
    /\ n <= Len(gameState.history)
    /\ r.gameState.history = SubSeq(gameState.history, 1, Len(gameState.history) - n)
    /\ \A c \in Cells(config.gridSize) :
            r.gameState.board[c.z][c.y][c.x] =
                IF \E i \in 1..n : gameState.history[Len(gameState.history) + 1 - i] = c
                THEN NoPlayer
                ELSE gameState.board[c.z][c.y][c.x]
    /\ r.gameState.winner = NoPlayer
    /\ r.gameState.winningLine = NoLine
    /\ ~r.gameState.isDraw

\* C17: an undo that takes effect removes exactly the last ply in local
\* two-player and online modes, and in vs-AI mode the last two plies when
\* it is black's turn and the history holds at least two, one otherwise;
\* the removed cells are emptied, the history is shortened by as many
\* entries, and winner, winning line and draw flag are cleared.
C17_UndoRemovesPlies ==
    \A r \in LocalUndo \cup RemoteUndo :
        r.gameState # gameState => TakenBack(r, PliesToUndo)

\* C18: while the history is empty or the in-flight AI flag is set, an
\* undo, requested locally or by the peer, changes nothing and sends no
\* UNDO.
C18_UndoRefused ==
    (Len(gameState.history) = 0 \/ isComputerThinking) =>
        \A r \in LocalUndo \cup RemoteUndo : r = Begin(Me)

\* an undo requested during the AI's think delay, after which the game and
\* the scheduled computation are as they were
C18_UndoWhileThinking ==
    /\ ev.op = "undoMove"
    /\ ev.pending
    /\ isComputerThinking
    /\ timer.pending
    /\ Len(gameState.history) > 0
    /\ ~ev.changed
    /\ sent = << >>

OnlineSession == config.gameMode = "Online" /\ conn = "open"

\* C19: a RESET received in an online session starts a fresh playing game
\* (empty board, black to move, empty history, no winner, no draw) under
\* the configuration the session had before the message (grid size, win
\* length, mode Online, local colour), and keeps the network connection
\* state.
C19_ResetKeepsConfig ==
    OnlineSession =>
        LET r == handleNetworkData(Begin(Me), [type |-> "RESET"]) IN
        /\ r.gameStatus = "playing"
        /\ r.gameState = FreshGameState(config.gridSize, gameState.networkStatus,
                                         gameState.networkRoomId)
        /\ r.config = config
        /\ r.conn = conn

\* C20: an UNDO received in an online session, with plies to take back and
\* no AI computation in flight, removes exactly the last ply from board and
\* history, gives the turn to the other player, and sends no UNDO back.
C20_RemoteUndoOnePly ==
    (OnlineSession /\ Len(gameState.history) > 0 /\ ~isComputerThinking) =>
        \A r \in RemoteUndo :
            /\ TakenBack(r, 1)
            /\ r.gameState.currentPlayer = Other(gameState.currentPlayer)
            /\ r.sent = << >>

\* the session after a local reset requested now, and after a second one
ResetOnce == Render(Me, resetGame(Begin(Me)))
ResetTwice == Render(ResetOnce, resetGame(Begin(ResetOnce)))

\* C21: from playing or finished, a reset yields status playing with an
\* entirely empty board (not full), an empty history, black to move, no
\* winner, no winning line, no draw and the same configuration; a second
\* reset gives the same state as the first.
C21_ResetFreshAndIdempotent ==
    gameStatus \in {"playing", "finished"} =>
        \A r \in {ResetOnce} :
            /\ r.gameStatus = "playing"
            /\ r.gameState.board = createEmptyBoard(config.gridSize)
            /\ ~isBoardFull(r.gameState.board)
            /\ Len(r.gameState.history) = 0
            /\ r.gameState.currentPlayer = "black"
            /\ r.gameState.winner = NoPlayer
            /\ r.gameState.winningLine = NoLine
            /\ ~r.gameState.isDraw
            /\ r.config = config
            /\ Render(r, resetGame(Begin(r))) = r

\* a reset of a finished game that had stones on the board
C21_ResetAfterFinish ==
    /\ ev.op = "resetGame"
    /\ ev.from = "finished"
    /\ ev.changed
    /\ gameStatus = "playing"
    /\ Len(gameState.history) = 0

\* C22: a reset in online mode emits exactly one RESET and leaves network
\* status, room id and the peer link as they are; in the other modes it
\* emits nothing.
C22_ResetNotifiesOnce ==
    gameStatus \in {"playing", "finished"} =>
        \A r \in {resetGame(Begin(Me))} :
            IF config.gameMode = "Online"
            THEN /\ r.sent = <<[type |-> "RESET"]>>
                 /\ r.gameState.networkStatus = gameState.networkStatus
                 /\ r.gameState.networkRoomId = gameState.networkRoomId
                 /\ r.conn = conn
                 /\ r.handler = handler
            ELSE r.sent = << >>

\* a reset of a connected online game that had a stone on the board
C22_OnlineResetSent ==
    /\ ev.op = "resetGame"
    /\ ev.changed
    /\ config.gameMode = "Online"
    /\ sent = <<[type |-> "RESET"]>>
    /\ conn = "open"
    /\ gameState.networkStatus = "connected"

\* C23: in every playing state the win length that win detection is called
\* with is at most the grid size of the board: the one of the session's
\* configuration for local and AI moves, the one of the registered
\* handler's closure for a peer's moves.
C23_WinLengthWithinGrid ==
    (Alive /\ gameStatus = "playing") =>
        /\ config.winLength <= BoardSize(gameState.board)
        /\ conn = "open" => handler.config.winLength <= BoardSize(gameState.board)

(***************************************************************************)
(* Properties of the winning line                                          *)
(***************************************************************************)

\* the step from cell a to cell b
StepBetween(a, b) == <<b.x - a.x, b.y - a.y, b.z - a.z>>

\* a win was reported by the last application of checkWin
WinReported == fn.out.f = "checkWin" /\ fn.out.result.winner # NoPlayer

\* C24: when checkWin reports a winner, consecutive coordinates of the
\* winning line all differ by one step of the same direction vector,
\* wherever the played stone sits within the run.
C24_LineContiguous ==
    WinReported =>
        LET line == fn.out.result.winningLine IN
        \E d \in AllDirections \cup {Negated(e) : e \in AllDirections} :
            \A i \in 1..(Len(line) - 1) : StepBetween(line[i], line[i + 1]) = d

\* the cells of the maximal run of player's stones through c along d
RunCells(board, player, c, d) ==
    {c} \cup {Coord(c.x + n * e[1], c.y + n * e[2], c.z + n * e[3]) :
                <<n, e>> \in {ne \in (1..(BoardSize(board) - 1)) \X {d, Negated(d)} :
                                HeldUpTo(board, player, c, ne[2], ne[1])}}

\* C25: when checkWin reports a winner, the cells of the winning line are
\* exactly the maximal run of the winner's stones through the played cell
\* along the first of the 13 directions, in their fixed order, whose run
\* reaches winLength: the line contains the played cell, holds no other
\* value, has no duplicates and cannot be extended at either end.
C25_LineIsFirstMaximalRun ==
    WinReported =>
        LET line == fn.out.result.winningLine
            c == fn.out.lastMove
            player == fn.out.result.winner
            reaching == {k \in 1..Len(directions) :
                            RunLength(fn.board, player, c, directions[k]) >= fn.out.winLength}
            first == CHOOSE k \in reaching : \A j \in reaching : k <= j
            cells == {line[i] : i \in 1..Len(line)}
        IN  /\ reaching # {}
            /\ cells = RunCells(fn.board, player, c, directions[first])
            /\ Cardinality(cells) = Len(line)
            /\ c \in cells
            /\ \A cell \in cells : fn.board[cell.z][cell.y][cell.x] = player

\* a win reported for a stone with the winner's stones on both sides of it
\* along the x axis
C25_WinInMiddleOfRun ==
    /\ WinReported
    /\ Len(fn.out.result.winningLine) >= 3
    /\ HeldUpTo(fn.board, fn.out.result.winner, fn.out.lastMove, <<1, 0, 0>>, 1)
    /\ HeldUpTo(fn.board, fn.out.result.winner, fn.out.lastMove, <<-1, 0, 0>>, 1)

(***************************************************************************)
(* Properties of the AI's simulations                                      *)
(***************************************************************************)

\* C26: calculateMove leaves the board it is given cell for cell as it was
\* before the call, on every return path: every simulated stone is taken
\* back.
C26_BoardRestored ==
    fn.out.f = "calculateMove" => fn.out.boardAfter = fn.board

\* a call that found neither a win nor a block and scored every column
C26_ScoredEveryColumn ==
    /\ fn.out.f = "calculateMove"
    /\ fn.stones >= 2
    /\ WinningColumns(fn.board, fn.out.player, fn.out.winLength) = {}
    /\ WinningColumns(fn.board, Other(fn.out.player), fn.out.winLength) = {}
    /\ fn.out.boardAfter = fn.board

(***************************************************************************)
(* Properties of a session, continued                                      *)
(***************************************************************************)

\* the last stone placed and its colour
LastStone == gameState.history[Len(gameState.history)]
LastColour == gameState.board[LastStone.z][LastStone.y][LastStone.x]

\* C27: a move that fills the last empty cell without completing a run of
\* the session's win length sets the draw flag with no winner and status
\* finished; if it completes such a run, the winner is set and the draw
\* flag stays off.
C27_LastCellDrawOrWin ==
    (ev.seq = "moved" /\ isBoardFull(gameState.board)) =>
        IF HasRun(gameState.board, LastColour, LastStone, config.winLength)
        THEN gameState.winner = LastColour /\ ~gameState.isDraw
        ELSE gameState.isDraw /\ gameState.winner = NoPlayer /\ gameStatus = "finished"


(***************************************************************************)
(* Properties of move resolution outside the board                         *)
(***************************************************************************)

\* the input names a cell the strategy can resolve on a board of that
\* size: a column for gravity, which ignores the layer, a cell otherwise
Resolvable(strategy, c, size) ==
    /\ c.x \in 0..(size - 1)
    /\ c.y \in 0..(size - 1)
    /\ strategy = "gravity" \/ c.z \in 0..(size - 1)

\* C28: move resolution, gravity or free placement, raises no exception for
\* any input coordinate, a coordinate outside [0, gridSize) on any axis
\* included: it returns a coordinate or the failure value null, and null
\* when the input names nothing on the board.
C28_ResolutionNeverThrows ==
    fn.out.f = "resolve" =>
        /\ fn.out.result.kind # "throw"
        /\ ~Resolvable(fn.out.strategy, fn.out.input, BoardSize(fn.board)) =>
                fn.out.result = PosNull


(***************************************************************************)
(* Properties of leaving a game                                            *)
(***************************************************************************)

\* C29: from any status, returnToSetup sets the status to setup, has the
\* transport disconnect and clears the AI's in-flight flag, the scheduled
\* AI computation going with the status; and while the status is setup no
\* AI computation is scheduled and no local click changes anything, so the
\* board stays as it is until a game is started.
C29_ReturnToSetupStopsPlay ==
    /\ ev.op = "returnToSetup" =>
            /\ gameStatus = "setup"
            /\ conn = "none"
            /\ handler = NoHandler
            /\ ~isComputerThinking
            /\ ~timer.pending
    /\ gameStatus = "setup" =>
            /\ ~timer.pending
            /\ \A c \in Clicks(config.gridSize), z \in InputZs :
                    makeMove(Begin(Me), c[1], c[2], z) = Begin(Me)
    /\ (ev.op \in {"makeMove", "aiTimeout"} /\ ev.from = "setup") => ~ev.changed

\* the setup form reopened from a game under way in which the AI's move was
\* scheduled
C29_LeftWhileAiScheduled ==
    /\ ev.op = "returnToSetup"
    /\ ev.from = "playing"
    /\ ev.pending
    /\ gameState.history # << >>
    /\ gameStatus = "setup"
    /\ ~timer.pending

\* a click on the board left behind by a session that was online: the
\* status found is setup and nothing changes
C29_ClickAfterLeaving ==
    /\ ev.op = "makeMove"
    /\ ev.from = "setup"
    /\ gameState.history # << >>
    /\ conn = "none"


(***************************************************************************)
(* Properties of messages the engine does not know                         *)
(***************************************************************************)

\* the message kinds handleNetworkData acts on
KnownTypes == {"MOVE", "UNDO", "RESET"}

\* C30: an incoming message whose type is not MOVE, UNDO or RESET leaves
\* board, history, turn, winner, draw flag, status and configuration, and
\* the rest of the session, as they are and has nothing sent.
C30_UnknownMessageIgnored ==
    /\ conn = "open" =>
            \A data \in PeerMessages(config.gridSize) :
                data.type \notin KnownTypes =>
                    handleNetworkData(Begin(Me), data) = Begin(Me)
    /\ ev.op = "recvPING" =>
            /\ ~ev.changed
            /\ gameStatus = ev.from
            /\ sent = << >>

\* a message of an unknown kind arrived in a game under way with stones on
\* the board
C30_PingDuringGame ==
    /\ ev.op = "recvPING"
    /\ ev.from = "playing"
    /\ gameState.history # << >>
    /\ conn = "open"


(***************************************************************************)
(* Invariants of a session                                                 *)
(***************************************************************************)

\* the game has a result
HasResult == gameState.winner # NoPlayer \/ gameState.isDraw

\* C32: the status is finished if and only if a winner is set or the draw
\* flag is set: a game that is playing has no winner and no draw, a game
\* that is finished has a result.
C32_FinishedIffResult ==
    Alive => (gameStatus = "finished" <=> HasResult)


\* the cells of the board that hold a stone
Occupied(board) ==
    {c \in Cells(BoardSize(board)) : board[c.z][c.y][c.x] # NoPlayer}

\* the coordinates recorded in a history
Recorded(history) == {history[k] : k \in DOMAIN history}

\* C33: the occupied cells of the board are exactly the coordinates in the
\* history and no coordinate is recorded twice, so there are as many stones
\* as plies, across moves, undos, resets and host/join.
C33_BoardMatchesHistory ==
    Alive =>
        /\ Occupied(gameState.board) = Recorded(gameState.history)
        /\ Cardinality(Recorded(gameState.history)) = Len(gameState.history)


\* a game has been started and is not back on the setup form
Started == gameStatus \in {"playing", "finished"}

\* C34: in a started game, in all three modes, the player to move is black
\* exactly when the number of plies in the history is even, after every
\* move and every undo.
C34_TurnMatchesParity ==
    (Alive /\ Started) =>
        (gameState.currentPlayer = "black" <=> Len(gameState.history) % 2 = 0)


\* C35: whenever a winner is set, the winning line is non-null, has at
\* least winLength cells, each of its cells holds the winner's colour on the
\* board, and it contains the last coordinate of the history; whenever no
\* winner is set, the winning line is null.
C35_WinningLineOnBoard ==
    Alive =>
        IF gameState.winner = NoPlayer THEN gameState.winningLine = NoLine
        ELSE \A line \in {gameState.winningLine} :
                /\ line # NoLine
                /\ Len(line) >= config.winLength
                /\ \A k \in DOMAIN line :
                        ReadCell(gameState.board, line[k].x, line[k].y, line[k].z)
                            = gameState.winner
                /\ gameState.history # << >>
                /\ \E k \in DOMAIN line : line[k] = LastStone


\* some stone on the board lies in a run of winLength or more stones of its
\* colour along one of the 13 directions
CompletedLine(board, winLength) ==
    \E c \in Occupied(board) :
        HasRun(board, board[c.z][c.y][c.x], c, winLength)

\* C36: whenever the status is playing and no winner is set, the board
\* holds no run of winLength or more stones of one colour along any of the
\* 13 directions.
C36_NoUndetectedLine ==
    (Alive /\ gameStatus = "playing" /\ gameState.winner = NoPlayer) =>
        ~CompletedLine(gameState.board, config.winLength)


\* a game against the AI in which white is to move
AiToMove == config.gameMode = "PvE" /\ gameState.currentPlayer = "white"

\* C37: against the AI, a local click made while white is the player to
\* move places no stone and changes nothing.
C37_ClickOnAiTurnIgnored ==
    /\ (Alive /\ AiToMove) =>
            \A c \in Clicks(config.gridSize), z \in InputZs :
                makeMove(Begin(Me), c[1], c[2], z) = Begin(Me)
    /\ (ev.op = "makeMove" /\ config.gameMode = "PvE" /\ ev.seq = "moved") =>
            ev.snap.core.currentPlayer = "black"


\* no empty cell lies below a stone of the same column
ColumnsSettled(board) ==
    \A z \in DOMAIN board : \A y \in DOMAIN board[z] : \A x \in DOMAIN board[z][y] :
        (z > 0 /\ board[z][y][x] # NoPlayer) =>
            ReadCell(board, x, y, z - 1) \in Players

RecvOps == {"recvMOVE", "recvUNDO", "recvRESET", "recvPING"}

\* C39: handling a message received from the peer, MOVE, UNDO or RESET,
\* has nothing sent back, and a local action has at most one message sent.
C39_NoEcho ==
    /\ ev.op \in RecvOps => sent = << >>
    /\ Len(sent) <= 1

\* a peer's MOVE has placed a stone, handled by a closure whose mode is
\* Online in a connected game, where a local move would have been sent
C39_RemoteMoveNotEchoed ==
    /\ ev.op = "recvMOVE"
    /\ ev.seq = "moved"
    /\ handler.registered
    /\ handler.config.gameMode = "Online"
    /\ gameState.networkStatus = "connected"
    /\ sent = << >>


(***************************************************************************)
(* Properties of the end of a game                                         *)
(***************************************************************************)

\* a started game whose board has no empty cell is finished
FullBoardFinished ==
    (Alive /\ Started /\ isBoardFull(gameState.board)) => gameStatus = "finished"

\* the last event placed a stone in a game that was finished with a result,
\* no undo having taken the result back
MovedAfterResult ==
    /\ ev.seq = "moved"
    /\ ev.from = "finished"
    /\ ev.snap.core.winner # NoPlayer \/ ev.snap.core.isDraw

\* C40: a started game is finished at the latest when its gridSize^3 cells
\* are taken, and once it is finished with its result standing no further
\* move is accepted.
C40_EndsAndStaysEnded ==
    /\ FullBoardFinished
    /\ ~MovedAfterResult


(***************************************************************************)
(* Properties of two peers                                                 *)
(***************************************************************************)

\* no message is in flight between the peers
Quiet == links.host = << >> /\ links.join = << >>

\* C31: with reliable in-order delivery on each link, whatever the
\* interleaving of local moves, undos and resets at the two peers, once no
\* message is in flight both peers hold the same board, history, player to
\* move, winner and draw flag.
C31_PeersConverge ==
    (Quiet /\ ~peers.host.crashed /\ ~peers.join.crashed) =>
        /\ peers.host.gameState.board = peers.join.gameState.board
        /\ peers.host.gameState.history = peers.join.gameState.history
        /\ peers.host.gameState.currentPlayer = peers.join.gameState.currentPlayer
        /\ peers.host.gameState.winner = peers.join.gameState.winner
        /\ peers.host.gameState.isDraw = peers.join.gameState.isDraw

====
